---- MODULE Spec2Model ----
(***************************************************************************)
(* A model of loopy/target/c/c_execution.py: the compiler wrapper          *)
(* (CCompiler), the ctypes call bridge (CompiledCKernel) and the memoizing *)
(* executor (CKernelExecutor).                                             *)
(*                                                                         *)
(* Three specifications share the definitions below:                       *)
(*   SpecBuild   CCompiler.build, one step of it at a time, for two        *)
(*               builders that may share one CCompiler instance;           *)
(*   SpecBridge  CompiledCKernel.__init__ and __call__ on one declaration; *)
(*   Spec        CKernelExecutor.__call__ with its kernel_info cache;      *)
(*   SpecPure    compile_args, link_args and _dtype_to_ctype called on     *)
(*               one CCompiler and one CompiledCKernel.                    *)
(***************************************************************************)
EXTENDS Naturals, Sequences, FiniteSets

VARIABLES
    fs,        \* the three scratch files of each temporary directory
    ninvoke,   \* number of compiler/linker processes each instance has spawned
    pc,        \* SpecBuild: position of each builder inside build()
    bcode,     \* SpecBuild: the code argument of each builder's build()
    binst,     \* SpecBuild: the CCompiler instance each builder uses
    blog,      \* SpecBuild: the steps each builder's current build() has run
    bresult,   \* SpecBuild: what each builder's build() returned or raised
    nbuilds,   \* SpecBuild: number of build() calls each builder has started
    knlIn,     \* SpecBridge: the device program handed to CompiledCKernel
    heap,      \* the CompiledCKernel objects constructed so far, in order
    lastNew,   \* SpecBridge: how the construction went
    lastCall,  \* SpecBridge: how the latest CompiledCKernel.__call__ went
    kernel,    \* Spec: the executor's kernel and its options
    cache,     \* Spec: the memoize dictionary of kernel_info, key -> bundle
    calls,     \* Spec: how each CKernelExecutor.__call__ so far went, in order
    comp,      \* SpecPure: the attributes of the CCompiler object
    returned   \* SpecPure: what each method call so far was given and returned

toolVars == <<fs, ninvoke>>

buildVars == <<pc, bcode, binst, blog, bresult, nbuilds>>

bridgeVars == <<knlIn, lastNew, lastCall>>

execVars == <<kernel, cache, calls>>

pureVars == <<comp, returned>>

vars == <<toolVars, buildVars, bridgeVars, heap, execVars, pureVars>>

(***************************************************************************)
(* cgen declarators, as the code reads them: isinstance tests look at      *)
(* kind, attribute reads at the fields a class has.                        *)
(***************************************************************************)
POD(dtype, name) == [kind |-> "POD", dtype |-> dtype, name |-> name]

Value(typename, name) == [kind |-> "Value", typename |-> typename, name |-> name]

Const(subdecl) == [kind |-> "Const", subdecl |-> subdecl]

RestrictPointer(subdecl) == [kind |-> "RestrictPointer", subdecl |-> subdecl]

Pointer(subdecl) == [kind |-> "Pointer", subdecl |-> subdecl]

FunctionDeclaration(subdecl, arg_decls) ==
    [kind |-> "FunctionDeclaration", subdecl |-> subdecl, arg_decls |-> arg_decls]

\* A nested declarator has a subdecl and no dtype; only a POD has a dtype.
IsNested(node) ==
    node.kind \in {"Const", "RestrictPointer", "Pointer", "FunctionDeclaration"}

HasDtype(node) == node.kind = "POD"

\* NestedDeclarator.name is its subdecl's name.
RECURSIVE DeclName(_)
DeclName(node) == IF IsNested(node) THEN DeclName(node.subdecl) ELSE node.name

(***************************************************************************)
(* Source text.  str(knl.ast) prints one device program's AST; the text of *)
(* the whole device code holds every program's; an editor may return a     *)
(* changed text.                                                           *)
(***************************************************************************)
Str(ast) == [asts |-> <<ast>>, edited |-> FALSE]

\* The functions a text defines: the names of the declarations printed in it.
RECURSIVE DefinedIn(_)
DefinedIn(astseq) ==
    IF astseq = <<>> THEN {}
    ELSE {DeclName(Head(astseq).decls[i]) : i \in 1..Len(Head(astseq).decls)}
         \cup DefinedIn(Tail(astseq))

(***************************************************************************)
(* CCompiler                                                               *)
(***************************************************************************)
NoFile == [kind |-> "none"]

\* A faulty variant of TempDir: every instance works in one directory.
TempDirShared(inst) == 1

\* self.tempdir = tempfile.mkdtemp(prefix="tmp_loopy"): a directory of the
\* instance's own, made once at construction; _tempname joins names to it.
TempDir(inst) == inst

\* tempfile.mkdtemp: a fresh, empty directory; the three paths of build().
EmptyDir == [c |-> NoFile, o |-> NoFile, so |-> NoFile]

\* A faulty variant of WriteSource: an existing source file is kept.
WriteSourceKeep(dir, code) ==
    IF dir.c.kind = "none" THEN [dir EXCEPT !.c = [kind |-> "c", text |-> code]]
    ELSE dir

\* open(c_fname, 'w'); fd.write(code)
WriteSource(dir, code) == [dir EXCEPT !.c = [kind |-> "c", text |-> code]]

\* The compiler process run by _call(compile_args(c_fname)): exit status 0
\* leaves the object file of whatever the source file holds now.
CompileRun(dir, exit0) ==
    IF exit0 /\ dir.c.kind = "c"
    THEN [dir EXCEPT !.o = [kind |-> "o", text |-> dir.c.text]]
    ELSE dir

\* The linker process run by _call(link_args(obj_fname, dll_fname)).
LinkRun(dir, exit0) ==
    IF exit0 /\ dir.o.kind = "o"
    THEN [dir EXCEPT !.so = [kind |-> "so", text |-> dir.o.text]]
    ELSE dir

\* ctypes.CDLL(dll_fname): a handle on what the library file holds now.
LoadLibrary(dir) == [kind |-> "CDLL", text |-> dir.so.text]

\* A faulty variant of CheckCallRaises: the exit status is ignored.
CheckCallRaisesDropped(exit0) == FALSE

\* subprocess.check_call raises CalledProcessError on a non-zero exit status.
CheckCallRaises(exit0) == ~exit0

Outcomes == {"ok", "compile_fails", "link_fails", "load_fails"}

\* CCompiler.build(code) as one call: the result, the directory it leaves and
\* the number of processes it spawned.  outcome says which step, if any, the
\* environment lets fail.
Build(dir, code, outcome) ==
    LET d1 == WriteSource(dir, code)
        cexit0 == outcome # "compile_fails"
        d2 == CompileRun(d1, cexit0)
        lexit0 == outcome # "link_fails"
        d3 == LinkRun(d2, lexit0)
    IN  IF CheckCallRaises(cexit0)
        THEN [ok |-> FALSE, err |-> "CalledProcessError", dir |-> d2, spawned |-> 1]
        ELSE IF CheckCallRaises(lexit0)
        THEN [ok |-> FALSE, err |-> "CalledProcessError", dir |-> d3, spawned |-> 2]
        ELSE IF outcome = "load_fails" \/ d3.so.kind # "so"
        THEN [ok |-> FALSE, err |-> "OSError", dir |-> d3, spawned |-> 2]
        ELSE [ok |-> TRUE, err |-> "none", dir |-> d3, spawned |-> 2,
              dll |-> LoadLibrary(d3)]

\* The class attributes of CCompiler and of its subclass CppCompiler.
CCompilerClass ==
    [source_suffix |-> "c", default_exe |-> "gcc",
     default_compile_flags |-> <<"-std=c99", "-g", "-O3", "-fPIC">>,
     default_link_flags |-> <<"-shared">>]

CppCompilerClass ==
    [source_suffix |-> "cpp", default_exe |-> "g++",
     default_compile_flags |-> <<"-g", "-O3">>,
     default_link_flags |-> <<"-shared">>]

\* The arguments of __init__: None, a string or a list, and the truth value
\* Python gives them: None, an empty string and an empty list are false.
None == [kind |-> "None"]

PyStr(s) == [kind |-> "str", val |-> s]

PyList(l) == [kind |-> "list", val |-> l]

Truthy(x) ==
    CASE x.kind = "None" -> FALSE
      [] x.kind = "str" -> x.val # ""
      [] x.kind = "list" -> x.val # <<>>

\* CCompiler.__init__(cc, cflags, ldflags) of class cls, as instance inst.
NewCCompiler(cls, cc, cflags, ldflags, inst) ==
    [exe |-> IF Truthy(cc) THEN cc.val ELSE cls.default_exe,
     cflags |-> IF Truthy(cflags) THEN cflags.val ELSE cls.default_compile_flags,
     ldflags |-> IF Truthy(ldflags) THEN ldflags.val ELSE cls.default_link_flags,
     tempdir |-> TempDir(inst)]

\* A faulty variant of CompileArgs: the stored list is extended in place
\* (self.cflags += ['-c', c_fname]) and returned.
CompileArgsInPlace(self, c_fname) ==
    [ret |-> self.cflags \o <<"-c", c_fname>>,
     self |-> [self EXCEPT !.cflags = self.cflags \o <<"-c", c_fname>>]]

\* compile_args(c_fname): list + list makes a new list; ret is what the
\* method returns, self the object's attributes when it returns.
CompileArgs(self, c_fname) ==
    [ret |-> self.cflags \o <<"-c", c_fname>>, self |-> self]

\* link_args(obj_fname, dll_fname)
LinkArgs(self, obj_fname, dll_fname) ==
    [ret |-> self.ldflags \o <<"-shared", obj_fname, "-o", dll_fname>>,
     self |-> self]

(***************************************************************************)
(* CompiledCKernel                                                         *)
(***************************************************************************)
\* registry.dtype_to_ctype(dtype): the C name the target's registry gives.
RegistryName(dtype) ==
    CASE dtype = "float32" -> "float"
      [] dtype = "float64" -> "double"
      [] dtype = "int32" -> "int"
      [] dtype = "uint32" -> "unsigned"
      [] dtype = "int64" -> "long"
      [] dtype = "uint64" -> "unsigned long"

\* The scalar types the ctypes module has (those the model uses).
CtypesScalars == {"c_float", "c_double", "c_int", "c_uint", "c_long", "c_ulong"}

CFloatKinds == {"c_float", "c_double"}

\* ctypes.POINTER(basetype) and a bare basetype.
CPointerTo(basetype) == [pointer |-> TRUE, base |-> basetype]

CValue(basetype) == [pointer |-> FALSE, base |-> basetype]

\* A faulty variant of DtypeToCtype: the pointer flag is ignored.
DtypeToCtypeNoPointer(dtype, pointer) ==
    LET typename0 == RegistryName(dtype)
        typename == IF typename0 = "unsigned" THEN "uint" ELSE typename0
        cname == CASE typename = "float" -> "c_float"
                   [] typename = "double" -> "c_double"
                   [] typename = "int" -> "c_int"
                   [] typename = "uint" -> "c_uint"
                   [] typename = "long" -> "c_long"
                   [] OTHER -> "missing"
    IN  [ok |-> TRUE, ctype |-> CValue(cname)]

\* _dtype_to_ctype: registry name, 'unsigned' renamed to 'uint', then
\* getattr(ctypes, 'c_' + typename), wrapped in POINTER when pointer is set.
\* cname is 'c_' + typename where the ctypes module has that attribute.
DtypeToCtype(dtype, pointer) ==
    LET typename0 == RegistryName(dtype)
        typename == IF typename0 = "unsigned" THEN "uint" ELSE typename0
        cname == CASE typename = "float" -> "c_float"
                   [] typename = "double" -> "c_double"
                   [] typename = "int" -> "c_int"
                   [] typename = "uint" -> "c_uint"
                   [] typename = "long" -> "c_long"
                   [] OTHER -> "missing"
    IN  IF cname \notin CtypesScalars
        THEN [ok |-> FALSE, err |-> "AttributeError"]
        ELSE [ok |-> TRUE,
              ctype |-> IF pointer THEN CPointerTo(cname) ELSE CValue(cname)]

\* _append_arg(pod.name, pod.dtype, pointer): the arguments are evaluated
\* first, and reading .dtype of a node that is no POD raises AttributeError.
AppendArg(arg_info, pod, pointer) ==
    IF ~HasDtype(pod)
    THEN [ok |-> FALSE, err |-> "AttributeError", arg_info |-> arg_info]
    ELSE LET ct == DtypeToCtype(pod.dtype, pointer)
         IN  IF ~ct.ok
             THEN [ok |-> FALSE, err |-> ct.err, arg_info |-> arg_info]
             ELSE [ok |-> TRUE, err |-> "none",
                   arg_info |-> Append(arg_info, <<DeclName(pod), ct.ctype>>)]

\* _visit_pointer: pod = node.subdecl, appended as a pointer argument.
VisitPointer(arg_info, node) == AppendArg(arg_info, node.subdecl, TRUE)

\* _visit_const
VisitConst(arg_info, node) ==
    IF node.subdecl.kind = "RestrictPointer"
    THEN VisitPointer(arg_info, node.subdecl)
    ELSE AppendArg(arg_info, node.subdecl, FALSE)

\* One parameter of _visit_func_decl's loop.
VisitArg(arg_info, arg) ==
    IF arg.kind = "Const" THEN VisitConst(arg_info, arg)
    ELSE IF arg.kind = "RestrictPointer" THEN VisitPointer(arg_info, arg)
    ELSE [ok |-> FALSE, err |-> "ValueError: unhandled type for arg",
          arg_info |-> arg_info]

\* _visit_func_decl: the parameters in order, stopping at the first that raises.
RECURSIVE VisitFrom(_, _, _)
VisitFrom(arg_info, arg_decls, i) ==
    IF i > Len(arg_decls) THEN [ok |-> TRUE, err |-> "none", arg_info |-> arg_info]
    ELSE LET r == VisitArg(arg_info, arg_decls[i])
         IN  IF r.ok THEN VisitFrom(r.arg_info, arg_decls, i + 1) ELSE r

VisitFuncDecl(func_decl) == VisitFrom(<<>>, func_decl.arg_decls, 1)

\* self.func_decl.decls[0]
FirstDecl(decls) == decls[1]

\* A faulty variant of RestypeOf: no return type is refused.
RestypeOfAny(typename) == [ok |-> TRUE, err |-> "none", restype |-> "None"]

\* restype == 'void' gives restype None; any other name raises ValueError.
RestypeOf(typename) ==
    IF typename = "void"
    THEN [ok |-> TRUE, err |-> "none", restype |-> "None"]
    ELSE [ok |-> FALSE, err |-> "ValueError: Unhandled restype"]

\* A faulty variant of BindKernel: the return type is checked before the
\* parameters are visited.
BindKernelRestypeFirst(knl, code, built, visited, rt) ==
    IF ~built.ok
    THEN [ok |-> FALSE, err |-> built.err, dir |-> built.dir,
          spawned |-> built.spawned, code |-> code, arg_info |-> <<>>]
    ELSE IF ~rt.ok
    THEN [ok |-> FALSE, err |-> rt.err, dir |-> built.dir,
          spawned |-> built.spawned, code |-> code, arg_info |-> <<>>]
    ELSE IF ~visited.ok \/ knl.name \notin DefinedIn(built.dll.text.asts)
    THEN [ok |-> FALSE,
          err |-> IF ~visited.ok THEN visited.err ELSE "AttributeError",
          dir |-> built.dir, spawned |-> built.spawned, code |-> code,
          arg_info |-> visited.arg_info]
    ELSE [ok |-> TRUE, err |-> "none", dir |-> built.dir,
          spawned |-> built.spawned, code |-> code,
          arg_info |-> visited.arg_info,
          obj |-> [name |-> knl.name,
                   code |-> code,
                   dll |-> built.dll,
                   restype |-> rt.restype,
                   argtypes |-> [i \in 1..Len(visited.arg_info) |->
                                    visited.arg_info[i][2]]]]

\* __init__ after self.dll = self.comp.build(self.code): first declaration,
\* parameters (visited), return type (rt), symbol lookup, binding.  The result
\* holds the directory the build left, whether or not __init__ raised.
BindKernel(knl, code, built, visited, rt) ==
    IF ~built.ok
    THEN [ok |-> FALSE, err |-> built.err, dir |-> built.dir,
          spawned |-> built.spawned, code |-> code, arg_info |-> <<>>]
    ELSE IF ~visited.ok \/ ~rt.ok \/ knl.name \notin DefinedIn(built.dll.text.asts)
    THEN [ok |-> FALSE,
          err |-> IF ~visited.ok THEN visited.err
                  ELSE IF ~rt.ok THEN rt.err ELSE "AttributeError",
          dir |-> built.dir, spawned |-> built.spawned, code |-> code,
          arg_info |-> visited.arg_info]
    ELSE [ok |-> TRUE, err |-> "none", dir |-> built.dir,
          spawned |-> built.spawned, code |-> code,
          arg_info |-> visited.arg_info,
          obj |-> [name |-> knl.name,
                   code |-> code,
                   dll |-> built.dll,
                   restype |-> rt.restype,
                   argtypes |-> [i \in 1..Len(visited.arg_info) |->
                                    visited.arg_info[i][2]]]]

\* CompiledCKernel(knl, target, comp) on the compiler's directory dir.
NewCompiledCKernel(knl, dir, outcome) ==
    BindKernel(knl, Str(knl.ast), Build(dir, Str(knl.ast), outcome),
               VisitFuncDecl(FirstDecl(knl.ast.decls)),
               RestypeOf(FirstDecl(knl.ast.decls).subdecl.typename))

(***************************************************************************)
(* CompiledCKernel.__call__ and the ctypes operations it uses.  A host     *)
(* value is a Python int or float, or an array with a dtype and a size.    *)
(***************************************************************************)
PyInt(v) == [kind |-> "int", val |-> v]

PyFloat(v) == [kind |-> "float", val |-> v]

NdArray(id, dtype, size) == [kind |-> "ndarray", id |-> id, dtype |-> dtype, size |-> size]

\* hasattr(arg, 'ctypes')
HasCtypes(arg) == arg.kind = "ndarray"

\* arg_t(v) for a Python number v: a pointer type takes only an instance of
\* its base type, an integer type no float; both raise TypeError.
CtypeNew(arg_t, v) ==
    IF arg_t.pointer THEN [ok |-> FALSE, err |-> "TypeError"]
    ELSE IF arg_t.base \notin CFloatKinds /\ v.kind = "float"
    THEN [ok |-> FALSE, err |-> "TypeError"]
    ELSE [ok |-> TRUE, err |-> "none",
          val |-> [ctype |-> arg_t, form |-> "scalar", val |-> v.val]]

\* A faulty variant of DataAs: the pointer is to a copy of the array's data.
DataAsCopy(arg, arg_t) ==
    IF ~arg_t.pointer THEN [ok |-> FALSE, err |-> "TypeError"]
    ELSE [ok |-> TRUE, err |-> "none",
          val |-> [ctype |-> arg_t, form |-> "pointer", storage |-> 0]]

\* arg.ctypes.data_as(arg_t): a cast of the array's own storage, which ctypes
\* allows to a pointer type only.
DataAs(arg, arg_t) ==
    IF ~arg_t.pointer THEN [ok |-> FALSE, err |-> "TypeError"]
    ELSE [ok |-> TRUE, err |-> "none",
          val |-> [ctype |-> arg_t, form |-> "pointer", storage |-> arg.id]]

\* The body of __call__'s loop for one (arg, arg_t) pair.
MarshalArg(arg, arg_t) ==
    IF HasCtypes(arg)
    THEN IF arg.size = 0 THEN CtypeNew(arg_t, PyFloat(0)) ELSE DataAs(arg, arg_t)
    ELSE CtypeNew(arg_t, arg)

Min(a, b) == IF a <= b THEN a ELSE b

\* The loop over zip(args, self._fn.argtypes), stopping at the first raise.
RECURSIVE MarshalFrom(_, _, _, _)
MarshalFrom(args_, args, argtypes, i) ==
    IF i > Min(Len(args), Len(argtypes))
    THEN [ok |-> TRUE, err |-> "none", args_ |-> args_]
    ELSE LET r == MarshalArg(args[i], argtypes[i])
         IN  IF r.ok THEN MarshalFrom(Append(args_, r.val), args, argtypes, i + 1)
             ELSE [ok |-> FALSE, err |-> r.err, args_ |-> args_]

\* A faulty variant of CallKernel: the number of arguments is compared with
\* the arity before anything is marshalled.
CallKernelStrict(obj, args) ==
    IF Len(args) # Len(obj.argtypes)
    THEN [ok |-> FALSE, err |-> "TypeError", args_ |-> <<>>, invoked |-> FALSE]
    ELSE IF ~MarshalFrom(<<>>, args, obj.argtypes, 1).ok
    THEN [ok |-> FALSE, err |-> MarshalFrom(<<>>, args, obj.argtypes, 1).err,
          args_ |-> MarshalFrom(<<>>, args, obj.argtypes, 1).args_, invoked |-> FALSE]
    ELSE [ok |-> TRUE, err |-> "none",
          args_ |-> MarshalFrom(<<>>, args, obj.argtypes, 1).args_, invoked |-> TRUE,
          ret |-> "None"]

\* self._fn(*args_): a foreign function with argtypes set refuses a call with
\* fewer arguments than argtypes.  __call__ has no return statement: when the
\* native call returns, the method returns None.
CallKernel(obj, args) ==
    LET m == MarshalFrom(<<>>, args, obj.argtypes, 1)
    IN  IF ~m.ok
        THEN [ok |-> FALSE, err |-> m.err, args_ |-> m.args_, invoked |-> FALSE]
        ELSE IF Len(m.args_) < Len(obj.argtypes)
        THEN [ok |-> FALSE, err |-> "TypeError", args_ |-> m.args_, invoked |-> FALSE]
        ELSE [ok |-> TRUE, err |-> "none", args_ |-> m.args_, invoked |-> TRUE,
              ret |-> "None"]

\* A faulty variant of SelfAfterCall: the call rebinds argtypes to the types
\* of the values it marshalled.
SelfAfterCallRebinds(obj, args) ==
    [obj EXCEPT !.argtypes =
        [i \in 1..Len(MarshalFrom(<<>>, args, obj.argtypes, 1).args_) |->
            MarshalFrom(<<>>, args, obj.argtypes, 1).args_[i].ctype]]

\* The object's attributes when __call__(*args) ends: the method assigns only
\* its locals args_ and arg_, no attribute of self or of self._fn.
SelfAfterCall(obj, args) == obj

NoCode == [asts |-> <<>>, edited |-> FALSE]

NoResult == [ok |-> FALSE, err |-> "none"]

Builders == {1, 2}

Instances == {1, 2}

MaxBuilds == 2

\* Two small device programs to build.
SrcA == Str([decls |-> <<FunctionDeclaration(Value("void", "knl_a"),
                                            <<RestrictPointer(POD("float32", "a"))>>)>>])

SrcB == Str([decls |-> <<FunctionDeclaration(Value("void", "knl_b"),
                                            <<Const(POD("int32", "n"))>>)>>])

SrcTexts == {SrcA, SrcB}

NoKnl == [name |-> "none", ast |-> [decls |-> <<>>]]

NoNew == [tried |-> FALSE]

NoCall == [called |-> FALSE]

\* Every CCompiler instance is fresh: an empty directory, nothing spawned.
InitTools ==
    /\ fs = [i \in Instances |-> EmptyDir]
    /\ ninvoke = [i \in Instances |-> 0]

\* No builder is inside build().
IdleBuild ==
    /\ pc = [b \in Builders |-> "idle"]
    /\ bcode = [b \in Builders |-> NoCode]
    /\ binst = [b \in Builders |-> b]
    /\ blog = [b \in Builders |-> <<>>]
    /\ bresult = [b \in Builders |-> NoResult]
    /\ nbuilds = [b \in Builders |-> 0]

\* No bridge is under construction.
IdleBridge ==
    /\ knlIn = NoKnl
    /\ lastNew = NoNew
    /\ lastCall = NoCall

NoKernel == [nprogs |-> 0, flawAt |-> 0, flaw |-> "none", edit_cl |-> FALSE]

\* No executor is in use.
IdleExec ==
    /\ kernel = NoKernel
    /\ cache = <<>>
    /\ calls = <<>>

\* No method is called on its own; the compilers are CCompiler().
IdlePure ==
    /\ comp = NewCCompiler(CCompilerClass, None, None, None, 1)
    /\ returned = <<>>

InitBuild ==
    /\ InitTools
    /\ IdleExec
    /\ IdlePure
    /\ pc = [b \in Builders |-> "idle"]
    /\ bcode = [b \in Builders |-> NoCode]
    /\ binst \in {[b \in Builders |-> b], [b \in Builders |-> 1]}
    /\ blog = [b \in Builders |-> <<>>]
    /\ bresult = [b \in Builders |-> NoResult]
    /\ nbuilds = [b \in Builders |-> 0]
    /\ IdleBridge
    /\ heap = <<>>

\* build(code) is entered.
BuildEnter(b, code) ==
    /\ pc[b] = "idle"
    /\ nbuilds[b] < MaxBuilds
    /\ pc' = [pc EXCEPT ![b] = "write"]
    /\ bcode' = [bcode EXCEPT ![b] = code]
    /\ blog' = [blog EXCEPT ![b] = <<>>]
    /\ bresult' = [bresult EXCEPT ![b] = NoResult]
    /\ nbuilds' = [nbuilds EXCEPT ![b] = @ + 1]
    /\ UNCHANGED <<fs, ninvoke, binst, bridgeVars, heap, execVars, pureVars>>

\* with open(c_fname, 'w') as fd: fd.write(code)
BuildWrite(b) ==
    /\ pc[b] = "write"
    /\ fs' = [fs EXCEPT ![TempDir(binst[b])] = WriteSource(@, bcode[b])]
    /\ blog' = [blog EXCEPT ![b] = Append(@, [step |-> "write", exit0 |-> TRUE])]
    /\ pc' = [pc EXCEPT ![b] = "compile"]
    /\ UNCHANGED <<ninvoke, bcode, binst, bresult, nbuilds, bridgeVars, heap, execVars, pureVars>>

\* self._call(self.compile_args(c_fname))
BuildCompile(b, exit0) ==
    /\ pc[b] = "compile"
    /\ fs' = [fs EXCEPT ![TempDir(binst[b])] = CompileRun(@, exit0)]
    /\ ninvoke' = [ninvoke EXCEPT ![binst[b]] = @ + 1]
    /\ blog' = [blog EXCEPT ![b] = Append(@, [step |-> "compile", exit0 |-> exit0])]
    /\ IF CheckCallRaises(exit0)
       THEN /\ pc' = [pc EXCEPT ![b] = "idle"]
            /\ bresult' = [bresult EXCEPT ![b] = [ok |-> FALSE, err |-> "CalledProcessError"]]
       ELSE /\ pc' = [pc EXCEPT ![b] = "link"]
            /\ UNCHANGED bresult
    /\ UNCHANGED <<bcode, binst, nbuilds, bridgeVars, heap, execVars, pureVars>>

\* self._call(self.link_args(obj_fname, dll_fname))
BuildLink(b, exit0) ==
    /\ pc[b] = "link"
    /\ fs' = [fs EXCEPT ![TempDir(binst[b])] = LinkRun(@, exit0)]
    /\ ninvoke' = [ninvoke EXCEPT ![binst[b]] = @ + 1]
    /\ blog' = [blog EXCEPT ![b] = Append(@, [step |-> "link", exit0 |-> exit0])]
    /\ IF CheckCallRaises(exit0)
       THEN /\ pc' = [pc EXCEPT ![b] = "idle"]
            /\ bresult' = [bresult EXCEPT ![b] = [ok |-> FALSE, err |-> "CalledProcessError"]]
       ELSE /\ pc' = [pc EXCEPT ![b] = "load"]
            /\ UNCHANGED bresult
    /\ UNCHANGED <<bcode, binst, nbuilds, bridgeVars, heap, execVars, pureVars>>

\* return ctypes.CDLL(dll_fname)
BuildLoad(b, loads) ==
    /\ pc[b] = "load"
    /\ blog' = [blog EXCEPT ![b] = Append(@, [step |-> "load", exit0 |-> loads])]
    /\ pc' = [pc EXCEPT ![b] = "idle"]
    /\ bresult' = [bresult EXCEPT ![b] =
            IF loads /\ fs[TempDir(binst[b])].so.kind = "so"
            THEN [ok |-> TRUE, err |-> "none", dll |-> LoadLibrary(fs[TempDir(binst[b])])]
            ELSE [ok |-> FALSE, err |-> "OSError"]]
    /\ UNCHANGED <<fs, ninvoke, bcode, binst, nbuilds, bridgeVars, heap, execVars, pureVars>>

NextBuild ==
    \/ \E b \in Builders, code \in SrcTexts : BuildEnter(b, code)
    \/ \E b \in Builders : BuildWrite(b)
    \/ \E b \in Builders, exit0 \in BOOLEAN : BuildCompile(b, exit0)
    \/ \E b \in Builders, exit0 \in BOOLEAN : BuildLink(b, exit0)
    \/ \E b \in Builders, loads \in BOOLEAN : BuildLoad(b, loads)

SpecBuild == InitBuild /\ [][NextBuild]_vars

BuildSteps == <<"write", "compile", "link", "load">>

\* C8: each build() runs write, compile, link, load in that order and each at
\* most once; a step runs only after every earlier step of the call succeeded,
\* so a non-zero compile exit is followed by neither link nor load and a
\* non-zero link exit by no load; a build that ended after a failed step has
\* raised and returned no library handle, and only a build whose four steps
\* all succeeded returns one.
C8_BuildOrder ==
    \A b \in Builders :
        /\ Len(blog[b]) <= Len(BuildSteps)
        /\ \A i \in 1..Len(blog[b]) : blog[b][i].step = BuildSteps[i]
        /\ \A i \in 1..Len(blog[b]) : i < Len(blog[b]) => blog[b][i].exit0
        /\ (blog[b] # <<>> /\ ~blog[b][Len(blog[b])].exit0) =>
                /\ pc[b] = "idle"
                /\ ~bresult[b].ok
                /\ bresult[b].err \in {"CalledProcessError", "OSError"}
        /\ bresult[b].ok =>
                /\ Len(blog[b]) = Len(BuildSteps)
                /\ \A i \in 1..Len(blog[b]) : blog[b][i].exit0

\* One build stopped by its compiler's exit status, another by its linker's.
C8_Witness ==
    \E b1, b2 \in Builders :
        /\ pc[b1] = "idle" /\ pc[b2] = "idle"
        /\ Len(blog[b1]) = 2 /\ ~blog[b1][2].exit0
        /\ bresult[b1].err = "CalledProcessError"
        /\ Len(blog[b2]) = 3 /\ ~blog[b2][3].exit0
        /\ bresult[b2].err = "CalledProcessError"

\* C10: when each builder has a CCompiler instance of its own, the library a
\* build loads was compiled and linked from that build's own source text
\* (with one shared instance the other build's text can be loaded: C10_Witness).
C10_OwnInstanceOwnCode ==
    (\A b1, b2 \in Builders : b1 # b2 => binst[b1] # binst[b2]) =>
        \A b \in Builders : bresult[b].ok => bresult[b].dll.text = bcode[b]

\* Two builders on one instance, different texts, and one of them has loaded
\* the library made from the other's text.
C10_Witness ==
    \E b1, b2 \in Builders :
        /\ b1 # b2
        /\ binst[b1] = binst[b2]
        /\ bcode[b1] # bcode[b2]
        /\ bresult[b1].ok
        /\ bresult[b1].dll.text = bcode[b2]

(***************************************************************************)
(* SpecBridge: one CompiledCKernel is constructed from a declaration drawn *)
(* from the shapes below, on CCompiler instance 1, and then called.        *)
(***************************************************************************)
MaxArgs == 2

MaxCallArgs == 2

SeqsUpTo(S, n) == UNION {[1..k -> S] : k \in 0..n}

\* Parameter declarations: the supported forms first, then forms the bridge
\* does not support.
ArgShapes ==
    { Const(POD("int32", "n")),
      Const(POD("float64", "x")),
      RestrictPointer(POD("float32", "a")),
      Const(RestrictPointer(POD("float32", "b"))),
      RestrictPointer(POD("uint32", "u")),
      POD("int32", "m"),
      Pointer(POD("float32", "p")),
      Const(Pointer(POD("float32", "q"))),
      Const(Value("float", "v")),
      RestrictPointer(Pointer(POD("float32", "r"))) }

\* A further function declared after the kernel's own.
AuxDecl == FunctionDeclaration(Value("void", "aux"), <<Const(POD("int32", "k"))>>)

BridgeInputs ==
    { [name |-> "knl",
       ast |-> [decls |-> <<FunctionDeclaration(Value(rt, "knl"), args)>> \o more]] :
        rt \in {"void", "int"},
        args \in SeqsUpTo(ArgShapes, MaxArgs),
        more \in {<<>>, <<AuxDecl>>} }

HostValues ==
    { NdArray(1, "float32", 0), NdArray(2, "float32", 2), PyInt(3), PyFloat(1) }

InitBridge ==
    /\ InitTools
    /\ IdleBuild
    /\ IdleExec
    /\ IdlePure
    /\ knlIn \in BridgeInputs
    /\ heap = <<>>
    /\ lastNew = NoNew
    /\ lastCall = NoCall

\* The state after a construction with outcome r.
Constructed(outcome, r) ==
    /\ fs' = [fs EXCEPT ![TempDir(1)] = r.dir]
    /\ ninvoke' = [ninvoke EXCEPT ![1] = @ + r.spawned]
    /\ heap' = IF r.ok THEN Append(heap, r.obj) ELSE heap
    /\ lastNew' = [tried |-> TRUE, ok |-> r.ok, err |-> r.err,
                   outcome |-> outcome, arg_info |-> r.arg_info,
                   code |-> r.code]

\* CompiledCKernel(knlIn, target, comp) with comp the CCompiler instance 1.
Construct(outcome) ==
    /\ ~lastNew.tried
    /\ Constructed(outcome, NewCompiledCKernel(knlIn, fs[TempDir(1)], outcome))
    /\ UNCHANGED <<buildVars, knlIn, lastCall, execVars, pureVars>>

\* The constructed bridge is called with positional arguments args.
BridgeCall(args) ==
    /\ heap # <<>>
    /\ lastCall' = [called |-> TRUE, args |-> args, res |-> CallKernel(heap[1], args)]
    /\ heap' = [heap EXCEPT ![1] = SelfAfterCall(@, args)]
    /\ UNCHANGED <<toolVars, buildVars, knlIn, lastNew, execVars, pureVars>>

NextBridge ==
    \/ \E outcome \in Outcomes : Construct(outcome)
    \/ \E args \in SeqsUpTo(HostValues, MaxCallArgs) : BridgeCall(args)

SpecBridge == InitBridge /\ [][NextBridge]_vars

\* The declaration the bridge is to use: the first function the AST declares.
DeclIn == knlIn.ast.decls[1]

\* The parameter forms the bridge supports: a const-wrapped scalar, a restrict
\* pointer to a scalar, a const-wrapped restrict pointer to a scalar.
IsConstScalar(arg) == arg.kind = "Const" /\ arg.subdecl.kind = "POD"

IsRestrictPtr(arg) == arg.kind = "RestrictPointer" /\ arg.subdecl.kind = "POD"

IsConstRestrictPtr(arg) == arg.kind = "Const" /\ IsRestrictPtr(arg.subdecl)

Supported(arg) == IsConstScalar(arg) \/ IsRestrictPtr(arg) \/ IsConstRestrictPtr(arg)

AllSupported(arg_decls) == \A i \in 1..Len(arg_decls) : Supported(arg_decls[i])

\* C4: with a return type name other than 'void' the construction raises and
\* leaves no bridge object, and with supported parameters and a build that
\* succeeded the error is the unhandled-restype one; with 'void', supported
\* parameters and a build that succeeded, the construction binds the kernel's
\* function with restype None.
C4_ReturnTypeGate ==
    lastNew.tried =>
        LET rt == DeclIn.subdecl.typename
            valid == lastNew.outcome = "ok" /\ AllSupported(DeclIn.arg_decls)
        IN  /\ rt # "void" => ~lastNew.ok /\ heap = <<>>
            /\ (rt # "void" /\ valid) => lastNew.err = "ValueError: Unhandled restype"
            /\ (rt = "void" /\ valid) =>
                    /\ lastNew.ok
                    /\ Len(heap) = 1
                    /\ heap[1].name = knlIn.name
                    /\ heap[1].restype = "None"
            /\ ~lastNew.ok => heap = <<>>

\* A declaration with supported parameters and return type 'int' was refused
\* after its build succeeded.
C4_Witness ==
    /\ lastNew.tried
    /\ lastNew.outcome = "ok"
    /\ DeclIn.subdecl.typename = "int"
    /\ Len(DeclIn.arg_decls) = 2
    /\ AllSupported(DeclIn.arg_decls)
    /\ lastNew.err = "ValueError: Unhandled restype"
    /\ heap = <<>>

\* The shapes C5 leaves out: a plain value, bare or const-wrapped, and a
\* restrict pointer to a scalar, bare or const-wrapped.
PlainOrRestrict(arg) == arg.kind = "POD" \/ Supported(arg)

\* C5: after a successful build, the first parameter whose shape is neither a
\* plain value nor a (possibly const-wrapped) restrict pointer to a scalar
\* makes the construction raise the unhandled-argument ValueError, with no
\* parameter type appended for it.
C5_UnsupportedShapeError ==
    (lastNew.tried /\ lastNew.outcome = "ok") =>
        \A i \in 1..Len(DeclIn.arg_decls) :
            (/\ ~PlainOrRestrict(DeclIn.arg_decls[i])
             /\ \A j \in 1..(i - 1) : Supported(DeclIn.arg_decls[j])) =>
                /\ ~lastNew.ok
                /\ lastNew.err = "ValueError: unhandled type for arg"
                /\ Len(lastNew.arg_info) = i - 1

\* The native scalar type of a semantic numeric type.
NativeOf(dtype) ==
    CASE dtype = "float32" -> "c_float"
      [] dtype = "float64" -> "c_double"
      [] dtype = "int32" -> "c_int"
      [] dtype = "uint32" -> "c_uint"
      [] dtype = "int64" -> "c_long"
      [] dtype = "uint64" -> "c_ulong"

\* The native parameter type a supported parameter form stands for.
ExpectedCtype(arg) ==
    CASE IsRestrictPtr(arg) -> [pointer |-> TRUE, base |-> NativeOf(arg.subdecl.dtype)]
      [] IsConstRestrictPtr(arg) ->
            [pointer |-> TRUE, base |-> NativeOf(arg.subdecl.subdecl.dtype)]
      [] IsConstScalar(arg) -> [pointer |-> FALSE, base |-> NativeOf(arg.subdecl.dtype)]
      [] OTHER -> [pointer |-> FALSE, base |-> "unsupported"]

\* C6: the argtypes bound on an accepted declaration's function have the
\* length and order of the first declaration's parameters: pointer-to-T for a
\* (const-wrapped) restrict pointer of base type T, value-T for a const-wrapped
\* scalar of type T.
C6_ArgtypesMatchDeclaration ==
    (lastNew.tried /\ lastNew.ok) =>
        /\ Len(heap) = 1
        /\ Len(heap[1].argtypes) = Len(DeclIn.arg_decls)
        /\ \A i \in 1..Len(DeclIn.arg_decls) :
                heap[1].argtypes[i] = ExpectedCtype(DeclIn.arg_decls[i])

\* An accepted declaration (const float *restrict b, const int n) followed by
\* a second declared function: argtypes are [POINTER(c_float), c_int].
C6_Witness ==
    /\ lastNew.tried /\ lastNew.ok
    /\ Len(knlIn.ast.decls) = 2
    /\ DeclIn.arg_decls = <<Const(RestrictPointer(POD("float32", "b"))),
                            Const(POD("int32", "n"))>>
    /\ heap[1].argtypes = <<CPointerTo("c_float"), CValue("c_int")>>

\* C7: a zero-size array given for the i-th parameter, the arguments before it
\* marshalled, is passed as a zero-valued scalar of that parameter's native
\* base type.
C7_ZeroSizeGivesBaseZero ==
    lastCall.called =>
        \A i \in 1..Min(Len(lastCall.args), Len(heap[1].argtypes)) :
            (/\ HasCtypes(lastCall.args[i])
             /\ lastCall.args[i].size = 0
             /\ Len(lastCall.res.args_) >= i - 1) =>
                /\ Len(lastCall.res.args_) >= i
                /\ lastCall.res.args_[i] =
                        [ctype |-> CValue(heap[1].argtypes[i].base),
                         form |-> "scalar", val |-> 0]

\* C14: the values a call has marshalled are, in order, those of its first
\* arguments, the i-th of the i-th parameter's type: a pointer to the array's
\* own storage for a non-empty array, a scalar holding the argument's value
\* for a non-array; a call that completes has invoked the native function
\* with one value per parameter and returned None, and a call that raised
\* has not invoked it.
C14_MarshalInOrder ==
    lastCall.called =>
        LET res == lastCall.res
        IN  /\ Len(res.args_) <= Min(Len(lastCall.args), Len(heap[1].argtypes))
            /\ \A i \in 1..Len(res.args_) :
                /\ res.args_[i].ctype = heap[1].argtypes[i]
                /\ (HasCtypes(lastCall.args[i]) /\ lastCall.args[i].size > 0) =>
                        /\ res.args_[i].form = "pointer"
                        /\ res.args_[i].storage = lastCall.args[i].id
                /\ ~HasCtypes(lastCall.args[i]) =>
                        /\ res.args_[i].form = "scalar"
                        /\ res.args_[i].val = lastCall.args[i].val
            /\ res.ok =>
                    /\ res.invoked
                    /\ res.ret = "None"
                    /\ Len(res.args_) = Len(heap[1].argtypes)
            /\ ~res.ok => ~res.invoked

\* The bridge of (const float *restrict b, const int n) was called with a
\* non-empty array and an int, and the native function invoked.
C14_Witness ==
    /\ lastCall.called
    /\ heap[1].argtypes = <<CPointerTo("c_float"), CValue("c_int")>>
    /\ lastCall.args = <<NdArray(2, "float32", 2), PyInt(3)>>
    /\ lastCall.res.invoked
    /\ lastCall.res.args_[1].storage = 2
    /\ lastCall.res.args_[2].val = 3

\* A value of the wrong kind for a parameter type: an array for a scalar
\* parameter, a number for a pointer parameter, a float for an integer one.
WrongKind(arg, arg_t) ==
    \/ HasCtypes(arg) /\ ~arg_t.pointer
    \/ ~HasCtypes(arg) /\ arg_t.pointer
    \/ arg.kind = "float" /\ ~arg_t.pointer /\ arg_t.base \notin CFloatKinds

\* The positional arguments do not match the signature: another number of
\* them than the arity, or one of the wrong kind for its parameter.
Mismatch(args, argtypes) ==
    \/ Len(args) # Len(argtypes)
    \/ \E i \in 1..Min(Len(args), Len(argtypes)) : WrongKind(args[i], argtypes[i])

\* C15: a call whose arguments do not match the signature raises and does not
\* invoke the native function.
C15_MismatchIsError ==
    (lastCall.called /\ Mismatch(lastCall.args, heap[1].argtypes)) =>
        /\ ~lastCall.res.ok
        /\ ~lastCall.res.invoked

\* The first parameter that is not supported is one _visit_func_decl itself
\* refuses: neither a Const nor a RestrictPointer.
RefusedAtTop(arg_decls) ==
    \E i \in 1..Len(arg_decls) :
        /\ arg_decls[i].kind \notin {"Const", "RestrictPointer"}
        /\ \A j \in 1..(i - 1) : Supported(arg_decls[j])

Marshalable(arg, arg_t) ==
    IF HasCtypes(arg) /\ arg.size = 0
    THEN ~arg_t.pointer /\ arg_t.base \in CFloatKinds
    ELSE ~WrongKind(arg, arg_t)

\* C19: a call whose leading min(given, arity) arguments ctypes accepts
\* marshals exactly that many; with more arguments given than the arity the
\* call completes, the native function invoked with arity values and the rest
\* dropped; with fewer given, the list handed to the function has only the
\* given ones (and ctypes refuses it for its length).
C19_MarshalsMinOfGivenAndArity ==
    lastCall.called =>
        LET n == Len(lastCall.args)
            a == Len(heap[1].argtypes)
            res == lastCall.res
        IN  /\ Len(res.args_) <= Min(n, a)
            /\ (\A i \in 1..Min(n, a) : Marshalable(lastCall.args[i], heap[1].argtypes[i])) =>
                    /\ Len(res.args_) = Min(n, a)
                    /\ n > a => (res.ok /\ res.invoked /\ Len(res.args_) = a)
                    /\ n < a => /\ Len(res.args_) = n
                                /\ ~res.invoked
                                /\ res.err = "TypeError"

\* A bridge of one parameter called with two arguments: the second is dropped
\* and the native function invoked with one value.
C19_Witness ==
    /\ lastCall.called
    /\ Len(heap[1].argtypes) = 1
    /\ Len(lastCall.args) = 2
    /\ lastCall.res.ok /\ lastCall.res.invoked
    /\ Len(lastCall.res.args_) = 1

\* C11: the construction binds the function named after the kernel with
\* restype None and the argtypes of the visited parameters, in order; and once
\* the construction has run, no step (no __call__, whatever its arguments and
\* whether or not it raises) changes the object: its name, library, restype
\* and argtypes stay as bound.
C11_SignatureFixedAfterInit ==
    [][/\ lastNew.tried => heap' = heap
       /\ (lastNew'.tried /\ lastNew'.ok) =>
            /\ Len(heap') = 1
            /\ heap'[1].name = knlIn.name
            /\ heap'[1].restype = "None"
            /\ heap'[1].argtypes =
                    [i \in 1..Len(lastNew'.arg_info) |-> lastNew'.arg_info[i][2]]
            /\ Len(heap'[1].argtypes) = Len(DeclIn.arg_decls)]_vars

\* A bridge of two parameters was called with one argument, which raised, and
\* its argtypes are the two that were bound.
C11_Witness ==
    /\ lastCall.called
    /\ Len(lastCall.args) = 1
    /\ ~lastCall.res.ok
    /\ heap[1].argtypes = <<CPointerTo("c_float"), CValue("c_int")>>
    /\ heap[1].restype = "None"

(***************************************************************************)
(* CKernelExecutor                                                         *)
(***************************************************************************)
MaxProgs == 2

MaxCalls == 2

\* The executor's kernels: how many device programs codegen yields, whether
\* the last of them (flawAt, 0: none) has a declaration the bridge refuses and
\* in which way, and the edit_cl option.
Kernels ==
    { [nprogs |-> n, flawAt |-> 0, flaw |-> "none", edit_cl |-> e] :
        n \in 1..MaxProgs, e \in BOOLEAN }
    \cup
    { [nprogs |-> n, flawAt |-> n, flaw |-> w, edit_cl |-> FALSE] :
        n \in 1..MaxProgs, w \in {"restype", "shape"} }

\* packing_controller.unpack(kwargs): the kernels here take flat arguments,
\* which unpack to themselves.
Unpack(kwargs) == kwargs

\* arg_to_dtype_set(kwargs): the name -> dtype bindings of the keyword
\* arguments that carry a dtype.
ArgToDtypeSet(kwargs) ==
    { <<name, kwargs[name].dtype>> :
        name \in {n \in DOMAIN kwargs : kwargs[n].kind = "ndarray"} }

\* The dtype a typed kernel gives argument name under a dtype signature.
DtypeFor(sig, name) ==
    IF \E b \in sig : b[1] = name
    THEN (CHOOSE b \in sig : b[1] = name)[2]
    ELSE "float32"

ProgNames == <<"knl_0", "knl_1", "knl_2", "knl_3">>

\* codegen_result.device_programs of the kernel typed by sig.
DeviceProgram(k, sig, i) ==
    LET name == ProgNames[i]
        good == <<RestrictPointer(POD(DtypeFor(sig, "a"), "a")), Const(POD("int32", "n"))>>
        bad == <<RestrictPointer(POD(DtypeFor(sig, "a"), "a")), Pointer(POD("int32", "n"))>>
        rt == IF k.flawAt = i /\ k.flaw = "restype" THEN "int" ELSE "void"
        args == IF k.flawAt = i /\ k.flaw = "shape" THEN bad ELSE good
    IN  [name |-> name,
         ast |-> [decls |-> <<FunctionDeclaration(Value(rt, name), args)>>]]

DevicePrograms(k, sig) == [i \in 1..k.nprogs |-> DeviceProgram(k, sig, i)]

\* codegen_result.device_code(): the text of all device programs.
DeviceCode(progs) ==
    [asts |-> [i \in 1..Len(progs) |-> progs[i].ast], edited |-> FALSE]

\* invoke_editor(dev_code, "code.cl"): the text as the user left it.
InvokeEditor(text, changed) == [text EXCEPT !.edited = changed]

\* What the loop over codegen_result.device_programs has done, given the
\* outcome r of each CompiledCKernel construction: the objects append to
\* c_kernels in order, the first construction that raises ends the loop.
RECURSIVE CompileFrom(_, _, _, _, _, _, _)
CompileNext(progs, i, objs, spawned, texts, outcomes, r) ==
    IF r.ok
    THEN CompileFrom(progs, i + 1, r.dir, Append(objs, r.obj),
                     spawned + r.spawned, Append(texts, r.code), outcomes)
    ELSE [ok |-> FALSE, err |-> r.err, dir |-> r.dir, objs |-> objs,
          spawned |-> spawned + r.spawned, texts |-> Append(texts, r.code),
          attempted |-> i]

\* The loop from program i on; each CompiledCKernel is built on the
\* executor's compiler, whose directory is dir.
CompileFrom(progs, i, dir, objs, spawned, texts, outcomes) ==
    IF i > Len(progs)
    THEN [ok |-> TRUE, err |-> "none", dir |-> dir, objs |-> objs,
          spawned |-> spawned, texts |-> texts, attempted |-> i - 1]
    ELSE CompileNext(progs, i, objs, spawned, texts, outcomes,
                     NewCompiledCKernel(progs[i], dir, outcomes[i]))

\* A faulty variant of KernelInfoResult: the bundle lists the new kernels
\* latest first.
KernelInfoResultReversed(sig, dev_code, first, c) ==
    [ok |-> c.ok, err |-> c.err, dir |-> c.dir, objs |-> c.objs,
     spawned |-> c.spawned, texts |-> c.texts, attempted |-> c.attempted,
     dev_code |-> dev_code,
     info |-> [kernel |-> [typed |-> sig],
               c_kernels |-> [j \in 1..Len(c.objs) |-> first + Len(c.objs) - j]]]

\* The bundle kernel_info returns (or what it had built when it raised), c
\* being the outcome of the loop; first is the heap index the first new
\* CompiledCKernel gets.
KernelInfoResult(sig, dev_code, first, c) ==
    [ok |-> c.ok, err |-> c.err, dir |-> c.dir, objs |-> c.objs,
     spawned |-> c.spawned, texts |-> c.texts, attempted |-> c.attempted,
     dev_code |-> dev_code,
     info |-> [kernel |-> [typed |-> sig],
               c_kernels |-> [j \in 1..Len(c.objs) |-> first + j - 1]]]

\* The body of kernel_info(arg_to_dtype_set): codegen, the optional editor,
\* one CompiledCKernel per device program, the bundle.
KernelInfoBody(k, sig, dir, first, outcomes, changed) ==
    KernelInfoResult(sig,
        IF k.edit_cl THEN InvokeEditor(DeviceCode(DevicePrograms(k, sig)), changed)
        ELSE DeviceCode(DevicePrograms(k, sig)),
        first,
        CompileFrom(DevicePrograms(k, sig), 1, dir, <<>>, 0, <<>>, outcomes))

\* A faulty variant of MemoKey: the arguments do not enter the key.
MemoKeyNoArgs(sig) == <<>>

\* memoize_method's key: the positional arguments kernel_info was given,
\* here the dtype signature alone.
MemoKey(sig) == <<sig>>

\* A faulty variant of MemoHit: the dictionary is never consulted.
MemoHitNever(memo, key) == FALSE

\* memoize_method finds the key in the dictionary.
MemoHit(memo, key) == key \in DOMAIN memo

\* A faulty variant of MemoStore: what was built is stored whether or not the
\* computation raised.
MemoStoreAlways(memo, key, r) ==
    [x \in DOMAIN memo \cup {key} |-> IF x = key THEN r.info ELSE memo[x]]

\* memoize_method stores the result once the method has returned; when it
\* raises, the exception propagates and nothing is stored.
MemoStore(memo, key, r) ==
    IF r.ok
    THEN [x \in DOMAIN memo \cup {key} |-> IF x = key THEN r.info ELSE memo[x]]
    ELSE memo

\* kernel_info.invoker(kernel_info.c_kernels, *args, **kwargs): what the
\* invoker is handed, which is all the executor decides.
Invoker(c_kernels, args, kwargs) ==
    [c_kernels |-> c_kernels, args |-> args, kwargs |-> kwargs]

\* What the toolchain may do to one build of the executor.
ExecOutcomes == {"ok", "compile_fails"}

\* What the toolchain may do to the builds of one kernel_info: the builds
\* after the first failing one never run, so what it would do to them is
\* left at "ok".
OutcomeSeqs(n) ==
    { o \in [1..n -> ExecOutcomes] :
        \A i, j \in 1..n : (i < j /\ o[i] # "ok") => o[j] = "ok" }

\* The calls made: one keyword array a, one positional array; between them
\* the calls differ in a's value, in a's dtype or in the positional dtype.
ExecInputs ==
    { [args |-> <<NdArray(4, "float32", 2)>>, kwargs |-> [a |-> NdArray(1, "float32", 2)]],
      [args |-> <<NdArray(4, "float32", 2)>>, kwargs |-> [a |-> NdArray(2, "float32", 2)]],
      [args |-> <<NdArray(4, "float32", 2)>>, kwargs |-> [a |-> NdArray(3, "float64", 2)]],
      [args |-> <<NdArray(5, "float64", 2)>>, kwargs |-> [a |-> NdArray(1, "float32", 2)]] }

InitExec ==
    /\ InitTools
    /\ IdleBuild
    /\ IdleBridge
    /\ IdlePure
    /\ heap = <<>>
    /\ kernel \in Kernels
    /\ cache = <<>>
    /\ calls = <<>>

\* __call__ when kernel_info finds its key: the stored bundle, no build.
ExecHit(args, kwargs, key) ==
    /\ calls' = Append(calls,
            [args |-> args, kwargs |-> kwargs, key |-> key, hit |-> TRUE,
             ok |-> TRUE, err |-> "none", info |-> cache[key],
             texts |-> <<>>, attempted |-> 0, dev_code |-> NoCode,
             spawned |-> 0, made |-> 0,
             result |-> Invoker(cache[key].c_kernels, args, kwargs)])
    /\ UNCHANGED <<toolVars, heap, cache>>

\* __call__ when kernel_info runs its body, with result r: the bundle is
\* stored and the invoker called, or the exception propagates.
ExecMiss(args, kwargs, key, r) ==
    /\ fs' = [fs EXCEPT ![TempDir(1)] = r.dir]
    /\ ninvoke' = [ninvoke EXCEPT ![1] = @ + r.spawned]
    /\ heap' = heap \o r.objs
    /\ cache' = MemoStore(cache, key, r)
    /\ calls' = Append(calls,
            [args |-> args, kwargs |-> kwargs, key |-> key, hit |-> FALSE,
             ok |-> r.ok, err |-> r.err, info |-> r.info,
             texts |-> r.texts, attempted |-> r.attempted, dev_code |-> r.dev_code,
             spawned |-> r.spawned, made |-> Len(r.objs),
             result |-> IF r.ok THEN Invoker(r.info.c_kernels, args, kwargs)
                        ELSE Invoker(<<>>, <<>>, <<>>)])

\* CKernelExecutor.__call__(*args, **kwargs) on the executor, whose compiler
\* is CCompiler instance 1.
ExecCall(args, kwargs, outcomes, changed) ==
    /\ Len(calls) < MaxCalls
    /\ IF MemoHit(cache, MemoKey(ArgToDtypeSet(Unpack(kwargs))))
       THEN ExecHit(args, Unpack(kwargs), MemoKey(ArgToDtypeSet(Unpack(kwargs))))
       ELSE ExecMiss(args, Unpack(kwargs), MemoKey(ArgToDtypeSet(Unpack(kwargs))),
                     KernelInfoBody(kernel, ArgToDtypeSet(Unpack(kwargs)),
                                    fs[TempDir(1)], Len(heap) + 1, outcomes, changed))
    /\ UNCHANGED <<buildVars, bridgeVars, kernel, pureVars>>

Next ==
    \E in \in ExecInputs, outcomes \in OutcomeSeqs(kernel.nprogs),
       changed \in BOOLEAN :
        ExecCall(in.args, in.kwargs, outcomes, changed)

Spec == InitExec /\ [][Next]_vars

\* The CompiledCKernel objects (heap indices) a call's bundle holds.
KernelsOf(c) == {c.info.c_kernels[i] : i \in 1..Len(c.info.c_kernels)}

\* C1: once a call has got its bundle for a key, the key stays in the cache
\* with that bundle, and every later call with an equal key succeeds with the
\* same bundle (the same CompiledCKernel objects, handed to the invoker),
\* spawns no compiler or linker process and constructs no CompiledCKernel.
C1_SameSignatureReuses ==
    \A i \in 1..Len(calls) :
        calls[i].ok =>
            /\ calls[i].key \in DOMAIN cache
            /\ cache[calls[i].key] = calls[i].info
            /\ \A j \in (i + 1)..Len(calls) :
                    calls[j].key = calls[i].key =>
                        /\ calls[j].ok
                        /\ calls[j].info = calls[i].info
                        /\ calls[j].result.c_kernels = calls[i].info.c_kernels
                        /\ calls[j].spawned = 0
                        /\ calls[j].made = 0

\* A build followed by a call with an equal signature and another array.
C1_Witness ==
    /\ Len(calls) = 2
    /\ calls[1].ok /\ ~calls[1].hit /\ calls[1].spawned > 0
    /\ calls[2].key = calls[1].key
    /\ calls[2].kwargs # calls[1].kwargs
    /\ calls[2].hit

\* Two host values that differ in their dtype and in nothing else a kernel
\* could tell apart (both arrays of one size).
OnlyDtypeDiffers(v, w) ==
    /\ v.kind = "ndarray" /\ w.kind = "ndarray"
    /\ v.size = w.size
    /\ v.dtype # w.dtype

\* The two calls have the same keyword arguments but for the dtype of one.
DifferInOneKwDtype(c, d) ==
    /\ c.args = d.args
    /\ DOMAIN c.kwargs = DOMAIN d.kwargs
    /\ \E n \in DOMAIN c.kwargs :
            /\ OnlyDtypeDiffers(c.kwargs[n], d.kwargs[n])
            /\ \A m \in DOMAIN c.kwargs \ {n} : c.kwargs[m] = d.kwargs[m]

\* The two calls have the same arguments but for the dtype of one positional.
DifferInOnePosDtype(c, d) ==
    /\ c.kwargs = d.kwargs
    /\ Len(c.args) = Len(d.args)
    /\ \E n \in 1..Len(c.args) :
            /\ OnlyDtypeDiffers(c.args[n], d.args[n])
            /\ \A m \in (1..Len(c.args)) \ {n} : c.args[m] = d.args[m]

\* What C2 says of an earlier call c and a later call d: other keys, a build
\* of d's own, and none of c's CompiledCKernel objects in d's bundle.
DistinctBuild(c, d) ==
    /\ d.key # c.key
    /\ ~d.hit
    /\ d.spawned >= 1
    /\ d.attempted >= 1
    /\ (c.ok /\ d.ok) => KernelsOf(c) \cap KernelsOf(d) = {}

FreshKey(j) == \A k \in 1..(j - 1) : calls[k].key = calls[j].key => ~calls[k].ok

Made(c, before) == Len(c) = Len(before) + 1

\* C3: a call whose kernel_info raises leaves the cache as it was, without an
\* entry for its key; and a call whose key an earlier call failed on and that
\* no call has succeeded on runs the build again from the first device
\* program.
C3_FailureNotCached ==
    [][Made(calls', calls) =>
        LET c == calls'[Len(calls')]
            first == DeviceProgram(kernel, c.key[1], 1)
        IN  /\ ~c.ok => (cache' = cache /\ c.key \notin DOMAIN cache')
            /\ (\E i \in 1..Len(calls) : ~calls[i].ok /\ calls[i].key = c.key)
               /\ (\A i \in 1..Len(calls) : calls[i].key = c.key => ~calls[i].ok)
               => /\ ~c.hit
                  /\ c.attempted >= 1
                  /\ c.texts[1] = Str(first.ast)
                  /\ c.spawned >= 1]_vars

\* The second of two device programs fails after the first was built, and the
\* next call with the same key builds both.
C3_Witness ==
    /\ Len(calls) = 2
    /\ ~calls[1].ok /\ calls[1].attempted = 2 /\ calls[1].made = 1
    /\ calls[2].key = calls[1].key
    /\ calls[2].ok /\ ~calls[2].hit /\ calls[2].made = 2

\* C9: with edit_cl set, every text a kernel_info run hands to the compiler
\* is the text the editor returned.
C9_EditedTextIsBuilt ==
    \A j \in 1..Len(calls) :
        (kernel.edit_cl /\ ~calls[j].hit) =>
            \A t \in 1..Len(calls[j].texts) : calls[j].texts[t] = calls[j].dev_code

\* C13: the bundle of every successful call, built or found in the cache,
\* holds one CompiledCKernel per device program of the kernel typed by the
\* call's signature, the i-th made from the i-th program's name and text and
\* loaded from the library built of that text; only the executor's compiler
\* (instance 1) has run; and what the call returns is what the invoker made
\* of that list, the positional and the keyword arguments.
C13_BundleAndDelegation ==
    /\ ninvoke[2] = 0 /\ fs[TempDir(2)] = EmptyDir
    /\ \A j \in 1..Len(calls) :
        calls[j].ok =>
            /\ Len(calls[j].info.c_kernels) = kernel.nprogs
            /\ \A i \in 1..kernel.nprogs :
                LET dp == DeviceProgram(kernel, ArgToDtypeSet(calls[j].kwargs), i)
                    ck == heap[calls[j].info.c_kernels[i]]
                IN  /\ ck.name = dp.name
                    /\ ck.code = Str(dp.ast)
                    /\ ck.dll.text = Str(dp.ast)
            /\ ~calls[j].hit => calls[j].spawned = 2 * kernel.nprogs
            /\ calls[j].result = [c_kernels |-> calls[j].info.c_kernels,
                                  args |-> calls[j].args,
                                  kwargs |-> calls[j].kwargs]

\* A kernel of two device programs was built by one call; a second call got
\* the same two-kernel bundle from the cache with other arguments.
C13_Witness ==
    /\ kernel.nprogs = 2
    /\ Len(calls) = 2
    /\ calls[1].ok /\ ~calls[1].hit /\ calls[1].made = 2
    /\ calls[1].result.c_kernels = <<1, 2>>
    /\ calls[2].ok /\ calls[2].hit
    /\ calls[2].result.c_kernels = <<1, 2>>
    /\ calls[2].result.kwargs # calls[1].result.kwargs

\* The j-th call ran the executor's most recent build.
LatestBuild(j) == ~calls[j].hit /\ \A k \in (j + 1)..Len(calls) : calls[k].hit

\* The text of the last build a call ran.
LastText(c) == c.texts[Len(c.texts)]

C18_KeyIsDtypeSignature ==
    /\ \A j \in 1..Len(calls) : calls[j].key = <<ArgToDtypeSet(calls[j].kwargs)>>
    /\ DOMAIN cache =
            {<<ArgToDtypeSet(calls[j].kwargs)>> : j \in {k \in 1..Len(calls) : calls[k].ok}}
    /\ \A i, j \in 1..Len(calls) :
        (/\ i < j
         /\ ArgToDtypeSet(calls[i].kwargs) = ArgToDtypeSet(calls[j].kwargs)
         /\ calls[i].ok) =>
            /\ calls[j].hit
            /\ calls[j].info = calls[i].info
            /\ calls[j].attempted = 0
            /\ cache[calls[j].key] = calls[i].info

\* Two calls whose keyword argument a is another float32 array each time: one
\* cache entry, one build.
C18_Witness ==
    /\ Len(calls) = 2
    /\ calls[1].kwargs.a.id # calls[2].kwargs.a.id
    /\ calls[1].kwargs.a.dtype = calls[2].kwargs.a.dtype
    /\ calls[1].ok /\ calls[1].attempted >= 1
    /\ calls[2].hit
    /\ Cardinality(DOMAIN cache) = 1
    /\ DOMAIN cache = {<<{<<"a", "float32">>}>>}

(***************************************************************************)
(* SpecPure: compile_args, link_args and _dtype_to_ctype are called, in    *)
(* any order, on one CCompiler and one CompiledCKernel.                    *)
(***************************************************************************)
MaxPureCalls == 3

\* The CCompiler and CppCompiler objects the constructor can make.
Compilers ==
    { NewCCompiler(cls, cc, cflags, ldflags, 1) :
        cls \in {CCompilerClass, CppCompilerClass},
        cc \in {None, PyStr("clang")},
        cflags \in {None, PyList(<<>>), PyList(<<"-O2">>)},
        ldflags \in {None, PyList(<<"-lm">>)} }

SrcPaths == {"tmp_loopy/code.c", "k.c"}

ObjPaths == {"tmp_loopy/code.o"}

LibPaths == {"tmp_loopy/code.so", "k.so"}

\* The numpy dtypes the registry names.
Dtypes == {"float32", "float64", "int32", "uint32", "int64", "uint64"}

InitPure ==
    /\ InitTools
    /\ IdleBuild
    /\ IdleBridge
    /\ IdleExec
    /\ heap = <<>>
    /\ comp \in Compilers
    /\ returned = <<>>

\* The state after a method of the CCompiler returned r.
Returned(fn, in, r) ==
    /\ comp' = r.self
    /\ returned' = Append(returned, [fn |-> fn, in |-> in, self |-> comp, ret |-> r.ret])

CallCompileArgs(c_fname) ==
    /\ Len(returned) < MaxPureCalls
    /\ Returned("compile_args", <<c_fname>>, CompileArgs(comp, c_fname))
    /\ UNCHANGED <<toolVars, buildVars, bridgeVars, heap, execVars>>

CallLinkArgs(obj_fname, dll_fname) ==
    /\ Len(returned) < MaxPureCalls
    /\ Returned("link_args", <<obj_fname, dll_fname>>, LinkArgs(comp, obj_fname, dll_fname))
    /\ UNCHANGED <<toolVars, buildVars, bridgeVars, heap, execVars>>

\* _dtype_to_ctype(dtype, pointer) reads the target's registry and ctypes.
CallDtypeToCtype(dtype, pointer) ==
    /\ Len(returned) < MaxPureCalls
    /\ returned' = Append(returned, [fn |-> "_dtype_to_ctype", in |-> <<dtype, pointer>>,
                                     self |-> comp, ret |-> DtypeToCtype(dtype, pointer)])
    /\ UNCHANGED <<toolVars, buildVars, bridgeVars, heap, execVars, comp>>

NextPure ==
    \/ \E c_fname \in SrcPaths : CallCompileArgs(c_fname)
    \/ \E obj_fname \in ObjPaths, dll_fname \in LibPaths : CallLinkArgs(obj_fname, dll_fname)
    \/ \E dtype \in Dtypes, pointer \in BOOLEAN : CallDtypeToCtype(dtype, pointer)

SpecPure == InitPure /\ [][NextPure]_vars

\* C12: every compile_args(src) so far returned the stored compile flags
\* followed by '-c' and src, every link_args(obj, lib) the stored link flags
\* followed by '-shared', obj, '-o', lib; calls of one method with equal
\* inputs returned equal lists; and the object's exe, cflags, ldflags and
\* tempdir are as they were before each call.
C12_ArgsExactAndPure ==
    /\ \A i \in 1..Len(returned) :
        /\ returned[i].self = comp
        /\ returned[i].fn = "compile_args" =>
                /\ Len(returned[i].ret) = Len(comp.cflags) + 2
                /\ SubSeq(returned[i].ret, 1, Len(comp.cflags)) = comp.cflags
                /\ SubSeq(returned[i].ret, Len(comp.cflags) + 1, Len(comp.cflags) + 2)
                        = <<"-c", returned[i].in[1]>>
        /\ returned[i].fn = "link_args" =>
                /\ Len(returned[i].ret) = Len(comp.ldflags) + 4
                /\ SubSeq(returned[i].ret, 1, Len(comp.ldflags)) = comp.ldflags
                /\ SubSeq(returned[i].ret, Len(comp.ldflags) + 1, Len(comp.ldflags) + 4)
                        = <<"-shared", returned[i].in[1], "-o", returned[i].in[2]>>
    /\ \A i, j \in 1..Len(returned) :
        (/\ returned[i].fn = returned[j].fn
         /\ returned[i].fn \in {"compile_args", "link_args"}
         /\ returned[i].in = returned[j].in) => returned[i].ret = returned[j].ret

\* On a compiler made with its own compile flags and the default link flags,
\* compile_args was called twice with one source path and then link_args.
C12_Witness ==
    /\ Len(returned) = 3
    /\ comp.cflags = <<"-O2">>
    /\ returned[1].fn = "compile_args" /\ returned[2].fn = "compile_args"
    /\ returned[1].in = returned[2].in
    /\ returned[2].ret = <<"-O2", "-c", "k.c">>
    /\ returned[3].fn = "link_args"
    /\ returned[3].ret = <<"-shared", "-shared", "tmp_loopy/code.o", "-o", "k.so">>

\* C20: every _dtype_to_ctype(dtype, pointer) returns the native scalar type
\* of dtype (c_uint for the registry's 'unsigned'), or the pointer to it when
\* pointer is set.
C20_DtypeToNativeType ==
    \A i \in 1..Len(returned) :
        returned[i].fn = "_dtype_to_ctype" =>
            /\ returned[i].ret.ok
            /\ returned[i].ret.ctype =
                    [pointer |-> returned[i].in[2], base |-> NativeOf(returned[i].in[1])]

====
